---- MODULE Spec2Model ----
(***************************************************************************)
(* Model of detection-ml-wksp/sec405-ipinsights.ipynb: the code cells of   *)
(* the notebook executed top to bottom by one kernel.  A cell that raises  *)
(* stops the run at that cell; a cell that catches an exception and prints *)
(* completes normally and the run goes on with the next cell.              *)
(* The remote parties (S3, the training service, the hosting service) are  *)
(* separate processes whose answers are drawn nondeterministically.        *)
(***************************************************************************)
EXTENDS Integers, Sequences, FiniteSets, TLC

\* Bounds of the model.
MaxNameLen == 1      \* longest configured bucket name, in characters
MaxRows == 3         \* most lines in a tuple CSV object
MaxRuns == 2         \* most executions of the training cell in one session

----------------------------------------------------------------------------
\* Bucket names as character sequences.  "#" stands for the characters of the
\* placeholder 'sec405-tuplesbucket-########' that S3 does not accept.
NameChars == {"a", "b", "c", "#"}

RECURSIVE SeqsUpTo(_, _)
SeqsUpTo(S, n) ==
    IF n = 0 THEN {<<>>}
    ELSE LET shorter == SeqsUpTo(S, n - 1)
         IN  shorter \cup {Append(s, x) : s \in {t \in shorter : Len(t) = n - 1}, x \in S}

BucketNames == SeqsUpTo(NameChars, MaxNameLen)

\* botocore checks the Bucket parameter on the client, before any request is
\* sent: a non-empty name made of accepted characters only.
ValidBucketName(b) == Len(b) >= 1 /\ \A i \in 1..Len(b) : b[i] # "#"

\* The account's view of S3: <<"a">> is the workshop's bucket, names that
\* start with "b" belong to somebody else, all other valid names are free.
BucketState(b) ==
    IF b = <<"a">> THEN "accessible"
    ELSE IF b[1] = "b" THEN "forbidden"
    ELSE "absent"

\* Tuples <principal ID, IP address>, each field a character sequence.
TupleRecord == {[principalId |-> <<"u">>, ipAddress |-> <<"1", "2">>],
                [principalId |-> <<"u", "v">>, ipAddress |-> <<"1">>]}
CsvFiles == SeqsUpTo(TupleRecord, MaxRows)

VARIABLES
    bucket,               \* cell 3: bucket
    prefix,               \* cell 3: prefix
    storage,              \* S3: state of every valid bucket name
    trainFile,            \* S3: lines of <prefix>/train/cloudtrail_tuples.csv
    inferFile,            \* S3: lines of <prefix>/infer/guardduty_tuples.csv
    pc,                   \* the cell the kernel is at
    error,                \* exception that stopped the run, or "none"
    probe,                \* what head_bucket answered
    input_data,           \* cell 7: the 'train' channel, or "none"
    printed,              \* lines printed so far
    jobs,                 \* training service: state of every job created
    latest_training_job,  \* ip_insights.latest_training_job (0: None)
    endpoint,             \* hosting service: state of the endpoint of deploy
    predictor,            \* predictor object (content type, codecs)
    inference_data,       \* rows of the DataFrame loaded by read_csv
    response,             \* value returned by the last predict
    storageCalls,         \* requests sent to S3 by the check
    trainCalls,           \* calls of ip_insights.fit
    deployCalls,          \* calls of ip_insights.deploy
    predictCalls,         \* calls of predictor.predict
    runs                  \* executions of the training cell

vars == <<bucket, prefix, storage, trainFile, inferFile, pc, error, probe,
          input_data, printed, jobs, latest_training_job, endpoint, predictor,
          inference_data, response, storageCalls, trainCalls, deployCalls,
          predictCalls, runs>>

config == <<bucket, prefix>>
external == <<storage, trainFile, inferFile>>
training == <<input_data, jobs, latest_training_job, trainCalls, runs>>
hosting == <<endpoint, predictor, deployCalls>>
inference == <<inference_data, response, predictCalls>>

NoPredictor == [content_type |-> "none", serializer |-> "none",
                accept |-> "none", deserializer |-> "none"]

\* State after cells 1 and 3: modules imported, bucket and prefix assigned.
Init ==
    /\ bucket \in BucketNames
    /\ prefix = ""
    /\ storage = [b \in {n \in BucketNames : ValidBucketName(n)} |-> BucketState(b)]
    /\ trainFile \in CsvFiles
    /\ inferFile \in CsvFiles
    /\ pc = "cell5"
    /\ error = "none"
    /\ probe = "none"
    /\ input_data = "none"
    /\ printed = {"Welcome"}
    /\ jobs = <<>>
    /\ latest_training_job = 0
    /\ endpoint = "none"
    /\ predictor = NoPredictor
    /\ inference_data = <<>>
    /\ response = [predictions |-> <<>>]
    /\ storageCalls = 0
    /\ trainCalls = 0
    /\ deployCalls = 0
    /\ predictCalls = 0
    /\ runs = 0

----------------------------------------------------------------------------
\* Cell 5: the storage precondition check.

\* Answers head_bucket can give for a name.  An invalid name is rejected on
\* the client (ParamValidationError).  Otherwise the request is sent and S3
\* answers 200, 403 or 404 by the bucket's state, or with another error
\* status ("500"), or the request never gets an answer (ConnectionError,
\* which is not a ClientError).
HeadBucketAnswers(b) ==
    IF ~ValidBucketName(b) THEN {"ParamValidationError"}
    ELSE {CASE storage[b] = "accessible" -> "200"
            [] storage[b] = "forbidden" -> "403"
            [] storage[b] = "absent" -> "404"} \cup {"500", "ConnectionError"}

\* Variants of CheckOutcome with a slip in the except clauses: the two status
\* codes exchanged, the final raise left out, the else line reached on 403.
CheckOutcome_swapped(answer) ==
    CASE answer = "200" -> "StoredIn"
      [] answer = "ParamValidationError" -> "InvalidName"
      [] answer = "403" -> "DoesNotExist"
      [] answer = "404" -> "NoPermission"
      [] OTHER -> "raise"

CheckOutcome_swallow(answer) ==
    CASE answer = "200" -> "StoredIn"
      [] answer = "ParamValidationError" -> "InvalidName"
      [] answer = "403" -> "NoPermission"
      [] answer = "404" -> "DoesNotExist"
      [] OTHER -> "StoredIn"

CheckOutcome_fallthrough(answer) ==
    CASE answer = "200" -> "StoredIn"
      [] answer = "ParamValidationError" -> "InvalidName"
      [] answer = "403" -> "StoredIn"
      [] answer = "404" -> "DoesNotExist"
      [] OTHER -> "raise"

\* The line the try/except/else prints for an answer; "raise" when the
\* exception leaves the cell.
CheckOutcome(answer) ==
    CASE answer = "200" -> "StoredIn"
      [] answer = "ParamValidationError" -> "InvalidName"
      [] answer = "403" -> "NoPermission"
      [] answer = "404" -> "DoesNotExist"
      [] OTHER -> "raise"

Cell5 ==
    /\ pc = "cell5" /\ error = "none"
    /\ \E answer \in HeadBucketAnswers(bucket) :
        /\ probe' = answer
        /\ storageCalls' = IF ValidBucketName(bucket) THEN storageCalls + 1 ELSE storageCalls
        /\ IF CheckOutcome(answer) = "raise"
           THEN /\ error' = (IF answer = "ConnectionError" THEN "ConnectionError" ELSE "ClientError")
                /\ UNCHANGED <<pc, printed>>
           ELSE /\ printed' = printed \cup {CheckOutcome(answer)}
                /\ pc' = "cell7"
                /\ UNCHANGED error
    /\ UNCHANGED <<config, external, training, hosting, inference>>

----------------------------------------------------------------------------
\* Cells 7 to 9: training.

\* os.path.join drops an empty leading component.
PathJoin(first, rest) == IF first = "" THEN rest ELSE <<first>> \o rest

\* Cell 7: image URI and the 'train' input channel.  No remote call.
Cell7 ==
    /\ pc = "cell7" /\ error = "none"
    /\ input_data' = [train |-> [bucket |-> bucket,
                                 key |-> PathJoin(prefix, <<"train", "cloudtrail_tuples.csv">>),
                                 distribution |-> "FullyReplicated",
                                 content_type |-> "text/csv"]]
    /\ pc' = "cell8"
    /\ UNCHANGED <<config, external, error, probe, printed, jobs,
                   latest_training_job, trainCalls, runs, hosting, inference,
                   storageCalls>>

\* Variant of NewTrainingJob that picks up the job of an earlier run.
NewTrainingJob_reuse(js) == IF js = <<>> THEN Append(js, "Submitted") ELSE js

\* fit starts a job of its own: the estimator is new, nothing is looked up.
NewTrainingJob(js) == Append(js, "Submitted")

\* Cell 8, up to the point where fit has submitted the job and waits.
Cell8 ==
    /\ pc = "cell8" /\ error = "none"
    /\ jobs' = NewTrainingJob(jobs)
    /\ latest_training_job' = Len(jobs')
    /\ trainCalls' = trainCalls + 1
    /\ runs' = runs + 1
    /\ pc' = "fit_wait"
    /\ UNCHANGED <<config, external, error, probe, input_data, printed,
                   hosting, inference, storageCalls>>

TerminalJobStates == {"Completed", "Failed", "Stopped"}

\* The training service.  A job completes only if it can read its input and
\* write its output; it can fail, or be stopped from outside, at any time.
TrainingService ==
    /\ \E k \in 1..Len(jobs), s \in {"InProgress"} \cup TerminalJobStates :
        /\ \/ jobs[k] = "Submitted" /\ s \in {"InProgress", "Failed", "Stopped"}
           \/ jobs[k] = "InProgress" /\ s \in TerminalJobStates
        /\ s = "Completed" => ValidBucketName(bucket) /\ storage[bucket] = "accessible"
        /\ jobs' = [jobs EXCEPT ![k] = s]
    /\ UNCHANGED <<config, external, pc, error, probe, input_data, printed,
                   latest_training_job, trainCalls, runs, hosting, inference,
                   storageCalls>>

\* Whether fit raises once its job is in terminal state s: the estimator
\* raises for a failed job and returns for a completed or a stopped one.
FitRaises(s) == s = "Failed"

\* Cell 8, the end of fit: it returns or raises when the job is terminal.
FitReturn ==
    /\ pc = "fit_wait" /\ error = "none"
    /\ jobs[latest_training_job] \in TerminalJobStates
    /\ IF FitRaises(jobs[latest_training_job])
       THEN error' = "RemoteJobFailed" /\ UNCHANGED pc
       ELSE pc' = "cell9" /\ UNCHANGED error
    /\ UNCHANGED <<config, external, probe, printed, training, hosting,
                   inference, storageCalls>>

\* Cell 9: print the job name.
Cell9 ==
    /\ pc = "cell9" /\ error = "none"
    /\ printed' = printed \cup {"JobName"}
    /\ pc' = "cell11"
    /\ UNCHANGED <<config, external, error, probe, training, hosting,
                   inference, storageCalls>>

\* The user runs the training cell again, and the cells below it, once the
\* run is over or has stopped in training or in deployment.
RerunTraining ==
    /\ runs < MaxRuns
    /\ pc = "done" \/ (pc \in {"fit_wait", "deploy_wait"} /\ error # "none")
    /\ pc' = "cell8"
    /\ error' = "none"
    /\ UNCHANGED <<config, external, probe, printed, training, hosting,
                   inference, storageCalls>>

----------------------------------------------------------------------------
\* Cells 11 and 12: deployment.

\* Cell 11, up to the point where deploy has asked for the endpoint.
Cell11 ==
    /\ pc = "cell11" /\ error = "none"
    /\ endpoint' = "Creating"
    /\ deployCalls' = deployCalls + 1
    /\ pc' = "deploy_wait"
    /\ UNCHANGED <<config, external, error, probe, printed, training,
                   predictor, inference, storageCalls>>

\* The hosting service brings the endpoint up, or fails to.
HostingService ==
    /\ endpoint = "Creating"
    /\ endpoint' \in {"InService", "Failed"}
    /\ UNCHANGED <<config, external, pc, error, probe, printed, training,
                   predictor, deployCalls, inference, storageCalls>>

\* Cell 11, the end of deploy: a predictor for the live endpoint, or raise.
DeployReturn ==
    /\ pc = "deploy_wait" /\ error = "none"
    /\ endpoint \in {"InService", "Failed"}
    /\ IF endpoint = "Failed"
       THEN error' = "RemoteJobFailed" /\ UNCHANGED <<pc, predictor>>
       ELSE pc' = "cell12" /\ predictor' = NoPredictor /\ UNCHANGED error
    /\ UNCHANGED <<config, external, probe, printed, training, endpoint,
                   deployCalls, inference, storageCalls>>

\* Cell 12: print the endpoint name.
Cell12 ==
    /\ pc = "cell12" /\ error = "none"
    /\ printed' = printed \cup {"EndpointName"}
    /\ pc' = "cell14"
    /\ UNCHANGED <<config, external, error, probe, training, hosting,
                   inference, storageCalls>>

----------------------------------------------------------------------------
\* Cells 14 to 18: inference.

\* Cell 14: CSV requests, JSON responses.
Cell14 ==
    /\ pc = "cell14" /\ error = "none"
    /\ predictor' = [content_type |-> "text/csv", serializer |-> "csv_serializer",
                     accept |-> "application/json", deserializer |-> "json_deserializer"]
    /\ pc' = "cell16"
    /\ UNCHANGED <<config, external, error, probe, printed, training,
                   endpoint, deployCalls, inference, storageCalls>>

\* pd.read_csv with its default header: the first line of the object names
\* the columns, the lines after it are the rows.  Defined for a non-empty
\* object; an empty one raises.
read_csv(lines) == Tail(lines)

\* csv_serializer: one line per row, fields joined by ",", lines by LF.
\* Defined for at least one row; no rows raise.
SerializeRow(row) == row.principalId \o <<",">> \o row.ipAddress

\* Variant of csv_serializer that puts all rows on one line.
RECURSIVE csv_serializer_oneline(_)
csv_serializer_oneline(rows) ==
    IF Len(rows) = 1 THEN SerializeRow(rows[1])
    ELSE SerializeRow(rows[1]) \o <<",">> \o csv_serializer_oneline(Tail(rows))

RECURSIVE csv_serializer(_)
csv_serializer(rows) ==
    IF Len(rows) = 1 THEN SerializeRow(rows[1])
    ELSE SerializeRow(rows[1]) \o <<"LF">> \o csv_serializer(Tail(rows))

\* Pieces of s between occurrences of sep.
RECURSIVE Split(_, _)
Split(s, sep) ==
    IF \A i \in 1..Len(s) : s[i] # sep THEN <<s>>
    ELSE LET i == CHOOSE i \in 1..Len(s) : s[i] = sep /\ \A j \in 1..(i - 1) : s[j] # sep
         IN  <<SubSeq(s, 1, i - 1)>> \o Split(SubSeq(s, i + 1, Len(s)), sep)

\* The model's score for a tuple: opaque to the notebook.  Here a number
\* that tells the tuples of TupleRecord apart, so that order is observable.
DotProduct(principalId, ipAddress) == 10 * Len(principalId) + Len(ipAddress)

Digits == <<"0", "1", "2", "3", "4", "5", "6", "7", "8", "9">>
DigitOf(n) == Digits[n + 1]
ValueOf(d) == CHOOSE n \in 0..9 : Digits[n + 1] = d

\* JSON text of one prediction, as tokens: {"dot_product": NN}
EncodePrediction(n) == <<"{", "dot_product", ":", DigitOf(n \div 10), DigitOf(n % 10), "}">>

RECURSIVE EncodePredictions(_)
EncodePredictions(ns) ==
    IF ns = <<>> THEN <<>>
    ELSE IF Len(ns) = 1 THEN EncodePrediction(ns[1])
    ELSE EncodePrediction(ns[1]) \o <<",">> \o EncodePredictions(Tail(ns))

\* The endpoint: scores every line of a text/csv body that has two fields
\* and answers {"predictions": [...]}; "error" for any other body.
InvokeEndpoint(content_type, body) ==
    LET lines == Split(body, "LF")
        fields == [i \in 1..Len(lines) |-> Split(lines[i], ",")]
    IN  IF content_type # "text/csv" \/ \E i \in 1..Len(lines) : Len(fields[i]) # 2
        THEN <<"error">>
        ELSE <<"{", "predictions", ":", "[">>
             \o EncodePredictions([i \in 1..Len(lines) |-> DotProduct(fields[i][1], fields[i][2])])
             \o <<"]", "}">>

\* json_deserializer: the response text back into a structure.
json_deserializer(text) ==
    LET inner == SubSeq(text, 5, Len(text) - 2)
        n == (Len(inner) + 1) \div 7
    IN  [predictions |->
            [i \in 1..n |-> [dot_product |-> 10 * ValueOf(inner[7 * (i - 1) + 4])
                                              + ValueOf(inner[7 * (i - 1) + 5])]]]

\* predictor.predict(data): serialize, invoke, deserialize.
predict(p, data) == json_deserializer(InvokeEndpoint(p.content_type, csv_serializer(data)))

\* Loads an object of the bucket and predicts on its rows; what cells 16 and
\* 18 have in common.  The object cannot be read unless the bucket is
\* accessible; the endpoint answers only while it is in service, and even
\* then a request can fail.
LoadAndPredict(file, nextCell) ==
    IF ~(ValidBucketName(bucket) /\ storage[bucket] = "accessible")
    THEN error' = "RemoteCallError" /\ UNCHANGED <<pc, inference>>
    ELSE IF file = <<>>
    THEN error' = "MalformedData" /\ UNCHANGED <<pc, inference>>
    ELSE /\ inference_data' = read_csv(file)
         /\ IF inference_data' = <<>>
            THEN error' = "ValueError" /\ UNCHANGED <<pc, response, predictCalls>>
            ELSE /\ predictCalls' = predictCalls + 1
                 /\ \E ok \in {b \in BOOLEAN : b => endpoint = "InService"} :
                      IF ok
                      THEN /\ response' = predict(predictor, inference_data')
                           /\ pc' = nextCell
                           /\ UNCHANGED error
                      ELSE error' = "RemoteCallError" /\ UNCHANGED <<pc, response>>

\* Cell 16: inference on the training tuples.
Cell16 ==
    /\ pc = "cell16" /\ error = "none"
    /\ LoadAndPredict(trainFile, "cell18")
    /\ UNCHANGED <<config, external, probe, printed, training, hosting,
                   storageCalls>>

\* Cell 18: inference on the GuardDuty tuples.
Cell18 ==
    /\ pc = "cell18" /\ error = "none"
    /\ LoadAndPredict(inferFile, "done")
    /\ UNCHANGED <<config, external, probe, printed, training, hosting,
                   storageCalls>>

Next ==
    \/ Cell5 \/ Cell7 \/ Cell8 \/ TrainingService \/ FitReturn \/ Cell9
    \/ RerunTraining \/ Cell11 \/ HostingService \/ DeployReturn \/ Cell12
    \/ Cell14 \/ Cell16 \/ Cell18

Spec == Init /\ [][Next]_vars

----------------------------------------------------------------------------
\* Properties.

CheckLines == {"InvalidName", "NoPermission", "DoesNotExist", "StoredIn"}
CheckRaised == pc = "cell5" /\ error # "none"

\* C1: when head_bucket answers 404 the check reports that the bucket does
\* not exist and the run stops there: fit is never called afterwards.
C1_NotFoundHalts ==
    probe = "404" => "DoesNotExist" \in printed /\ trainCalls = 0

\* C2: with an empty or malformed bucket name the check reports the invalid
\* name and no call reaches S3, fit or deploy in the whole run.
C2_InvalidNameFailsFast ==
    (~ValidBucketName(bucket) /\ probe # "none") =>
        /\ "InvalidName" \in printed
        /\ storageCalls = 0 /\ trainCalls = 0 /\ deployCalls = 0

\* C3: deploy is invoked only when the job that fit submitted is Completed,
\* never for a job that ended Failed or Stopped.
C3_DeployOnlyAfterCompleted ==
    pc = "deploy_wait" => jobs[latest_training_job] = "Completed"

\* C4: every line of a tuple CSV object is one record sent for prediction
\* and gets one result: N lines give N results, for both objects; an object
\* that has lines never leaves predict without rows to send.
C4_EveryLineScored ==
    /\ error # "ValueError"
    /\ (pc = "cell18" /\ error = "none") =>
            Len(inference_data) = Len(trainFile)
            /\ Len(response.predictions) = Len(trainFile)
    /\ pc = "done" =>
            Len(inference_data) = Len(inferFile)
            /\ Len(response.predictions) = Len(inferFile)

PredictReturned == (pc = "cell18" /\ error = "none") \/ pc = "done"

\* C5: when predict returns, the response holds one result per row passed,
\* in the order of the rows: result i is the score of row i; equal rows
\* each get their result.
C5_RoundTrip ==
    PredictReturned =>
        /\ Len(response.predictions) = Len(inference_data)
        /\ \A i \in 1..Len(inference_data) :
              response.predictions[i].dot_product =
                  DotProduct(inference_data[i].principalId, inference_data[i].ipAddress)

C5_TwoRowsScored ==
    /\ PredictReturned
    /\ Len(inference_data) = 2
    /\ inference_data[1] # inference_data[2]
    /\ Len(response.predictions) = 2

\* C6: when head_bucket answers 403 the check prints the no-permission line
\* and none of the does-not-exist, invalid-name or success lines.
C6_AccessDenied ==
    probe = "403" =>
        /\ "NoPermission" \in printed
        /\ printed \cap {"DoesNotExist", "InvalidName", "StoredIn"} = {}

C6_Denied == probe = "403" /\ bucket = <<"b">> /\ pc = "cell7"

\* C7: a head_bucket failure other than an invalid name, 403 or 404 leaves
\* the cell as an exception: no line of the check is printed and the run
\* stops at the check.
C7_UnknownReraised ==
    probe \in {"500", "ConnectionError"} =>
        /\ CheckRaised
        /\ printed \cap CheckLines = {}
        /\ trainCalls = 0

C7_Reraised == probe = "500" /\ error = "ClientError" /\ pc = "cell5"

\* C8: the stages run in order, each after the success of the one before:
\* fit only after a successful storage check, deploy only when training has
\* ended, predict only on a live endpoint.
C8_StagesInOrder ==
    /\ trainCalls > 0 => probe = "200"
    /\ pc = "deploy_wait" => jobs[latest_training_job] \notin {"Submitted", "InProgress"}
    /\ (pc = "done" \/ (pc = "cell18" /\ error = "none")) => endpoint = "InService"

C10_CheckOutcomes ==
    /\ [](probe # "none" =>
            /\ Cardinality(printed \cap CheckLines) + (IF CheckRaised THEN 1 ELSE 0) = 1
            /\ "StoredIn" \in printed <=> probe = "200")
    /\ [][probe # probe' => UNCHANGED <<config, external>>]_vars

C10_Success == probe = "200" /\ "StoredIn" \in printed /\ error = "none"
====
